---- MODULE Spec2Model ----
(***************************************************************************)
(* A model of monadism: the Maybe, Either and State containers and the     *)
(* shared helpers of Functional (eq, empty, exists, identity).             *)
(*                                                                         *)
(* JavaScript values are records tagged by "t".  Every method is a pure    *)
(* operator over these records; a function passed to a method is a         *)
(* descriptor record that ApplyFn / ApplyK / ApplyE / ApplyS interpret.    *)
(* A raised exception is the value TypeError (or an Error record).         *)
(***************************************************************************)
EXTENDS Integers, Sequences, FiniteSets, TLC

VARIABLES
  origin,   \* Maybe: the container a constructor returned (or Undefined)
  via,      \* Maybe: the constructor call that built origin
  chain,    \* Maybe: the methods applied to origin since, oldest first
  mb,       \* Maybe: the container the chain has produced (this)
  mcall,    \* Maybe: the last method call that returned a plain value or threw
  called,   \* Maybe: the values on's callback was invoked with since the constructor
  ei,       \* Either: the Either the last call returned (or Undefined)
  efrom,    \* Either: the call that returned ei, with its receiver and arguments
  ecall,    \* Either: the last call that returned a plain value or threw
  st,       \* State: the computation the last call returned (or Undefined)
  nest,     \* State: how many map/then/apply calls composed st
  srun      \* State: the last eval or exec of st, its input state and its output

mvars == <<origin, via, chain, mb, mcall, called>>

evars == <<ei, efrom, ecall>>

svars == <<st, nest, srun>>

vars == <<origin, via, chain, mb, mcall, called, ei, efrom, ecall, st, nest, srun>>

(***************************************************************************)
(* Bounds of the model.                                                    *)
(***************************************************************************)
MaxNum == 1     \* the numbers the callers pass are 0..MaxNum
MaxLen == 1     \* arrays hold at most MaxLen items
MaxChain == 2   \* at most MaxChain chained methods after a constructor
MaxNest == 1    \* at most MaxNest map/then/apply calls compose a State

(***************************************************************************)
(* JavaScript values.                                                      *)
(***************************************************************************)
Null == [t |-> "null"]
Undefined == [t |-> "undefined"]
NaN == [t |-> "NaN"]
Num(n) == [t |-> "number", n |-> n]
Str(s) == [t |-> "string", s |-> s]
Bool(b) == [t |-> "boolean", b |-> b]
Obj(ref, props) == [t |-> "object", ref |-> ref, props |-> props]
Arr(items) == [t |-> "array", items |-> items]
TypeError == [t |-> "throw", error |-> "TypeError"]
Fn(func) == [t |-> "function", fn |-> func]
Error(message) == [t |-> "throw", error |-> message]

emptySymbol == [t |-> "symbol", s |-> "MONADISM:EMPTY"]

empty == emptySymbol

exists(v) == v # Null /\ v # Undefined

identity(a) == a

\* ToBoolean: what `!x`, `x ? .. : ..`, `x || y`, `x && y` and Boolean(x) test.
Truthy(v) ==
  CASE v.t = "null" -> FALSE
    [] v.t = "undefined" -> FALSE
    [] v.t = "NaN" -> FALSE
    [] v.t = "number" -> v.n # 0
    [] v.t = "string" -> v.s # ""
    [] v.t = "boolean" -> v.b
    [] OTHER -> TRUE

\* The values the `in` operator rejects with a TypeError.
IsPrimitive(v) ==
  v.t \in {"null", "undefined", "NaN", "number", "string", "boolean", "symbol"}

\* a === b.  An array stands for one object, so it is identical to itself.
StrictEq(a, b) ==
  CASE a.t # b.t -> FALSE
    [] a.t = "NaN" -> FALSE
    [] a.t = "object" -> a.ref = b.ref
    [] OTHER -> a = b

\* key in val, for a val that is an object.
In(key, val) ==
  CASE val.t = "object" -> key \in DOMAIN val.props
    [] val.t = "array" -> key = "length"
    [] OTHER -> FALSE

\* val[key], for a key that is in val.
Get(val, key) ==
  CASE val.t = "object" -> val.props[key]
    [] val.t = "array" -> Num(Len(val.items))

(***************************************************************************)
(* Maybe (src/src/Maybe.ts).                                               *)
(***************************************************************************)
MaybeOf(value) == [t |-> "Maybe", option |-> value, empty |-> empty]

Just(value) == MaybeOf(value)

Nothing == MaybeOf(empty)

maybe(value) == IF exists(value) THEN Just(value) ELSE Nothing

isNothingFalsy(m) == ~Truthy(m.option)

isNothing(m) == m.option = m.empty

toNullable(m) == IF isNothing(m) THEN Undefined ELSE m.option

toBoolean(m) == IF isNothing(m) THEN FALSE ELSE Truthy(toNullable(m))

MaybeGetOr(m, def) == IF isNothing(m) THEN def ELSE m.option

RECURSIVE eq(_, _)
RECURSIVE MaybeEquals(_, _)

\* m.option[0] of an m that is no Maybe reads an index of undefined: TypeError.
MaybeEquals(this, m) ==
  IF m.t # "Maybe" THEN TypeError
  ELSE LET a == this.option
           b == m.option
       IN IF ~Truthy(a) THEN Bool(~Truthy(b))
          ELSE IF ~Truthy(b) THEN Bool(FALSE)
          ELSE eq(a, b)

\* The results are Bool(..) or TypeError; reduce without an initial value
\* folds `memo && Boolean(item)` over a non-empty array.
eq(a, b) ==
  IF a.t = "array" /\ b.t = "array"
  THEN IF Len(a.items) > 0 /\ Len(a.items) = Len(b.items)
       THEN LET r == [i \in 1..Len(a.items) |-> eq(a.items[i], b.items[i])]
            IN IF \E i \in 1..Len(r) : r[i].t = "throw"
               THEN r[CHOOSE i \in 1..Len(r) : r[i].t = "throw"]
               ELSE Bool(\A i \in 1..Len(r) : Truthy(r[i]))
       ELSE Bool(FALSE)
  ELSE IF Truthy(a) /\ a.t = "Maybe"
       THEN MaybeEquals(a, b)
       ELSE Bool(StrictEq(a, b))

\* n * 2 and a * a: undefined and NaN make the result NaN.
Double(a) ==
  CASE a.t = "number" -> Num(a.n * 2)
    [] a.t \in {"undefined", "NaN"} -> NaN

Square(a) ==
  CASE a.t = "number" -> Num(a.n * a.n)
    [] a.t \in {"undefined", "NaN"} -> NaN

\* The plain functions (value: A) => B handed to map, modify, gets and of:
\* identity, _ => c, n => n * 2, a => a * a, and the closure
\* val => { callback(val); return val } that on builds.
ApplyFn(func, val) ==
  CASE func.k = "identity" -> identity(val)
    [] func.k = "const" -> func.c
    [] func.k = "double" -> Double(val)
    [] func.k = "square" -> Square(val)
    [] func.k = "on" -> val

\* The invocations of a callback that running func(val) makes, oldest first:
\* on's closure calls its callback once with val, the others call none.
Invoked(func, val) ==
  IF func.k = "on" THEN <<[callback |-> func.callback, value |-> val]>>
  ELSE <<>>

RECURSIVE ApplyK(_, _)
RECURSIVE MaybeFmap(_, _)

MaybeFmapNegated(this, func) ==
  IF isNothing(this) THEN ApplyK(func, this.option) ELSE Nothing

MaybeFmap(this, func) ==
  IF ~isNothing(this) THEN ApplyK(func, this.option) ELSE Nothing

\* The functions (value: A) => Maybe<B> handed to fmap: the callers' own
\* (() => Nothing(), _ => Just(c), x => x ? Just(x) : Nothing(), and
\* x => f(x).fmap(g)) and the closures that map and prop build.
ApplyK(func, val) ==
  CASE func.k = "Nothing" -> Nothing
    [] func.k = "always" -> Just(func.c)
    [] func.k = "ifTruthy" -> IF Truthy(val) THEN Just(val) ELSE Nothing
    [] func.k = "bind" ->
         LET r == ApplyK(func.f, val)
         IN IF r.t = "throw" THEN r ELSE MaybeFmap(r, func.g)
    [] func.k = "map" ->
         LET r == ApplyFn(func.func, val)
         IN IF Truthy(r) THEN Just(r) ELSE Nothing
    [] func.k = "prop" ->
         IF Truthy(val)
         THEN IF IsPrimitive(val) THEN TypeError
              ELSE IF In(func.key, val) THEN maybe(Get(val, func.key))
              ELSE Nothing
         ELSE Nothing

MaybeMap(this, func) == MaybeFmap(this, [k |-> "map", func |-> func])

MaybeOn(this, callback) == MaybeMap(this, [k |-> "on", callback |-> callback])

\* The callback invocations this.on(callback) makes: fmap runs map's closure
\* only on a present container, and map's closure runs on's closure once.
OnInvoked(this, callback) ==
  IF ~isNothing(this)
  THEN Invoked([k |-> "on", callback |-> callback], this.option)
  ELSE <<>>

prop(this, key) == MaybeFmap(this, [k |-> "prop", key |-> key])

(***************************************************************************)
(* Either (src/src/Either.ts).                                             *)
(***************************************************************************)
\* constructor (type, {l, r}): an absent l or r is undefined.
EitherNew(type, l, r) ==
  [ t |-> "Either",
    type |-> type,
    left |-> IF Truthy(l) THEN l ELSE empty,
    right |-> IF Truthy(r) THEN r ELSE empty,
    emptyLeft |-> empty,
    emptyRight |-> empty ]

Left(l) == EitherNew("Left", l, Undefined)

Right(r) == EitherNew("Right", Undefined, r)

fromMaybe(l, m) == IF toBoolean(m) THEN Right(toNullable(m)) ELSE Left(l)

isLeft(this) == this.type = "Left"

isRight(this) == this.type = "Right"

\* The functions (r: R) => Either<L, B> handed to fmap: the callers' own
\* (Right, a constant Left) and the closure that map builds.
ApplyE(func, val) ==
  CASE func.k = "Right" -> Right(val)
    [] func.k = "Left" -> Left(func.c)
    [] func.k = "map" -> Right(ApplyFn(func.func, val))

EitherFmap(this, func) ==
  IF isRight(this) THEN ApplyE(func, this.right) ELSE Left(this.left)

EitherMap(this, func) == EitherFmap(this, [k |-> "map", func |-> func])

EitherApplyThisLeft(this, m) ==
  IF isLeft(this) THEN Left(this.left)
  ELSE IF isLeft(m) THEN Left(m.left)
  ELSE Right(ApplyFn(m.right.fn, this.right))

EitherApply(this, m) ==
  IF isLeft(this)
  THEN Left(IF StrictEq(m.left, m.emptyLeft) THEN this.left ELSE m.left)
  ELSE IF isLeft(m) THEN Left(m.left)
  ELSE Right(ApplyFn(m.right.fn, this.right))

EitherGetOr(this, r) == IF isLeft(this) THEN r ELSE this.right

eitherTruthy(l, r) ==
  IF Truthy(l) /\ Truthy(r)
  THEN Error("Cannot construct an Either with both a Left and a Right")
  ELSE IF ~Truthy(l) /\ ~Truthy(r)
  THEN Error("Cannot construct an Either with neither a Left or a Right")
  ELSE IF Truthy(l) /\ ~Truthy(r) THEN Left(l)
  ELSE Right(r)

either(l, r) ==
  IF exists(l) /\ exists(r)
  THEN Error("Cannot construct an Either with both a Left and a Right")
  ELSE IF ~exists(l) /\ ~exists(r)
  THEN Error("Cannot construct an Either with neither a Left or a Right")
  ELSE IF exists(l) /\ ~exists(r) THEN Left(l)
  ELSE Right(r)

(***************************************************************************)
(* State (src/unnamed/part_000).  A State holds its run closure, which is  *)
(* only evaluated by eval and exec; run(this, s) is the pair [a, s1].      *)
(***************************************************************************)
StateNew(closure) == [t |-> "State", run |-> closure]

get == StateNew([k |-> "get"])

put(s) == StateNew([k |-> "put", s |-> s])

of(a) == StateNew([k |-> "of", a |-> a])

modify(func) == StateNew([k |-> "modify", func |-> func])

gets(func) == StateNew([k |-> "gets", func |-> func])

StateMap(this, func) == StateNew([k |-> "map", this |-> this, func |-> func])

StateThen(this, func) == StateNew([k |-> "then", this |-> this, func |-> func])

StateApply(this, m) == StateThen(m, [k |-> "mapOver", this |-> this])

\* The functions (a: A) => State<S, B> handed to then: the callers' own
\* (s => put(g(s)), of, () => get(), a fixed State) and the closure
\* func => this.map(func) that apply builds.
ApplyS(func, a) ==
  CASE func.k = "put" -> put(ApplyFn(func.g, a))
    [] func.k = "of" -> of(a)
    [] func.k = "get" -> get
    [] func.k = "always" -> func.st
    [] func.k = "mapOver" -> StateMap(func.this, a.fn)

RECURSIVE run(_, _)
RECURSIVE runMap(_, _, _)
RECURSIVE runThen(_, _, _)
RECURSIVE runThenStale(_, _, _)

runMap(this, func, s) ==
  LET r == run(this, s)
  IN <<ApplyFn(func, r[1]), r[2]>>

runThenStale(this, func, s) ==
  LET r == run(this, s)
  IN run(ApplyS(func, r[1]), s)

runThen(this, func, s) ==
  LET r == run(this, s)
  IN run(ApplyS(func, r[1]), r[2])

run(this, s) ==
  LET c == this.run
  IN CASE c.k = "get" -> <<s, s>>
       [] c.k = "put" -> <<Undefined, c.s>>
       [] c.k = "of" -> <<c.a, s>>
       [] c.k = "modify" -> <<Undefined, ApplyFn(c.func, s)>>
       [] c.k = "gets" -> <<ApplyFn(c.func, s), s>>
       [] c.k = "map" -> runMap(c.this, c.func, s)
       [] c.k = "then" -> runThen(c.this, c.func, s)

eval(this, s) == run(this, s)[1]

exec(this, s) == run(this, s)[2]

(***************************************************************************)
(* The inputs the callers draw from.                                       *)
(***************************************************************************)
Nums == {Num(n) : n \in 0..MaxNum}

Prims == Nums \cup {Null, Undefined, Str(""), Str("a"), Bool(FALSE), Bool(TRUE)}

Objects ==
  { Obj(1, [a |-> Num(0)]), Obj(2, [a |-> Num(0)]),
    Obj(3, [a |-> Str("a"), b |-> Null]) }

Arrays == {Arr(s) : s \in UNION {[1..n -> Nums] : n \in 0..MaxLen}}

InnerMaybes == {Just(v) : v \in Nums} \cup {Nothing}

Values == Prims \cup Objects \cup Arrays \cup InnerMaybes

RealValues == {v \in Values : exists(v)}

Containers == {Just(v) : v \in RealValues} \cup {Nothing}

Keys == {"a", "b", "length"}

Funcs == {[k |-> "identity"], [k |-> "const", c |-> Num(0)]}

\* The callbacks handed to on.
Callbacks == {"log"}

Kleislis == {[k |-> "Nothing"], [k |-> "ifTruthy"], [k |-> "always", c |-> Num(0)]}

\* The left and right values of the Eithers, and the Eithers handed to apply.
Sides == Nums \cup {Str(""), Str("a"), Bool(FALSE)}

Nils == {Null, Undefined}

EitherKleislis == {[k |-> "Right"], [k |-> "Left", c |-> Str("a")]}

EitherFuncs == {Left(l) : l \in Sides} \cup {Right(Fn(func)) : func \in Funcs}

\* The functions on states and results, the continuations handed to then and
\* the function-valued States handed to apply.
NumFuncs ==
  {[k |-> "double"], [k |-> "square"], [k |-> "identity"], [k |-> "const", c |-> Num(0)]}

Conts == {[k |-> "put", g |-> g] : g \in NumFuncs} \cup {[k |-> "of"], [k |-> "get"]}

StateFuncs ==
  {of(Fn(func)) : func \in NumFuncs}
    \cup {StateThen(modify(g), [k |-> "always", st |-> of(Fn([k |-> "double"]))]) :
            g \in NumFuncs}
    \cup {StateMap(modify(g), [k |-> "const", c |-> Fn([k |-> "double"])]) :
            g \in NumFuncs}

NoRun == [op |-> "none", s |-> Undefined, out |-> Undefined]

NoCall == [op |-> "none", arg |-> Undefined, out |-> Undefined]

NoCtor == [ctor |-> "none", arg |-> Undefined]

(***************************************************************************)
(* Maybe: the calls a program makes.                                       *)
(***************************************************************************)
NoMaybe ==
  /\ origin = Undefined
  /\ via = NoCtor
  /\ chain = <<>>
  /\ mb = Undefined
  /\ mcall = NoCall
  /\ called = <<>>

NoFrom ==
  [op |-> "none", this |-> Undefined, l |-> Undefined, r |-> Undefined,
   given |-> Undefined]

NoEither ==
  /\ ei = Undefined
  /\ efrom = NoFrom
  /\ ecall = NoCall

NoState ==
  /\ st = Undefined
  /\ nest = 0
  /\ srun = NoRun

MaybeInit == NoMaybe /\ NoEither /\ NoState

CallJust ==
  \E v \in RealValues :
    /\ origin' = Just(v)
    /\ via' = [ctor |-> "Just", arg |-> v]
    /\ chain' = <<>>
    /\ mb' = Just(v)
    /\ mcall' = NoCall
    /\ called' = <<>>
    /\ UNCHANGED <<evars, svars>>

CallNothing ==
  /\ origin' = Nothing
  /\ via' = [ctor |-> "Nothing", arg |-> Undefined]
  /\ chain' = <<>>
  /\ mb' = Nothing
  /\ mcall' = NoCall
  /\ called' = <<>>
  /\ UNCHANGED <<evars, svars>>

CallMaybe ==
  \E v \in Values :
    /\ origin' = maybe(v)
    /\ via' = [ctor |-> "maybe", arg |-> v]
    /\ chain' = <<>>
    /\ mb' = maybe(v)
    /\ mcall' = NoCall
    /\ called' = <<>>
    /\ UNCHANGED <<evars, svars>>

\* A chained method: its result becomes `this`, unless it threw.
Chained(op, func, r) ==
  IF r.t = "throw"
  THEN /\ mcall' = [op |-> op, arg |-> func, out |-> r]
       /\ UNCHANGED <<origin, via, chain, mb, called>>
       /\ UNCHANGED <<evars, svars>>
  ELSE /\ chain' = Append(chain, [op |-> op, fn |-> func])
       /\ mb' = r
       /\ mcall' = NoCall
       /\ UNCHANGED <<origin, via, called>>
       /\ UNCHANGED <<evars, svars>>

CallFmap ==
  /\ mb # Undefined
  /\ Len(chain) < MaxChain
  /\ \E func \in Kleislis : Chained("fmap", func, MaybeFmap(mb, func))

CallMap ==
  /\ mb # Undefined
  /\ Len(chain) < MaxChain
  /\ \E func \in Funcs : Chained("map", func, MaybeMap(mb, func))

CallProp ==
  /\ mb # Undefined
  /\ Len(chain) < MaxChain
  /\ \E key \in Keys : Chained("prop", [k |-> "prop", key |-> key], prop(mb, key))

\* this.on(callback): the callback's invocations are logged in called.
CallOn ==
  /\ mb # Undefined
  /\ Len(chain) < MaxChain
  /\ \E callback \in Callbacks :
       /\ chain' = Append(chain, [op |-> "on", fn |-> [k |-> "on", callback |-> callback]])
       /\ mb' = MaybeOn(mb, callback)
       /\ called' = called \o OnInvoked(mb, callback)
  /\ mcall' = NoCall
  /\ UNCHANGED <<origin, via>>
  /\ UNCHANGED <<evars, svars>>

\* isNothing() of either live container: the constructor's or the chain's.
CallIsNothing ==
  /\ mb # Undefined
  /\ \E m \in {origin, mb} :
       mcall' = [op |-> "isNothing", arg |-> m, out |-> Bool(isNothing(m))]
  /\ UNCHANGED <<origin, via, chain, mb, called>>
  /\ UNCHANGED <<evars, svars>>

\* this.equals(m): m is any container, or the one the chain started from.
CallEquals ==
  /\ mb # Undefined
  /\ \E m \in (IF chain = <<>> THEN Containers ELSE {origin}) :
       mcall' = [op |-> "equals", arg |-> m, out |-> MaybeEquals(mb, m)]
  /\ UNCHANGED <<origin, via, chain, mb, called>>
  /\ UNCHANGED <<evars, svars>>

MaybeNext ==
  \/ CallJust
  \/ CallNothing
  \/ CallMaybe
  \/ CallFmap
  \/ CallMap
  \/ CallProp
  \/ CallOn
  \/ CallIsNothing
  \/ CallEquals

SpecMaybe == MaybeInit /\ [][MaybeNext]_vars

(***************************************************************************)
(* Either: the calls a program makes.  efrom.given is the argument of the  *)
(* Left(..) or Right(..) call that built ei.                               *)
(***************************************************************************)
EitherInit == NoMaybe /\ NoEither /\ NoState

From(op, this, l, r, given) ==
  [op |-> op, this |-> this, l |-> l, r |-> r, given |-> given]

CallLeft ==
  \E l \in Sides :
    /\ ei' = Left(l)
    /\ efrom' = From("Left", Undefined, l, Undefined, l)
    /\ ecall' = NoCall
    /\ UNCHANGED <<mvars, svars>>

CallRight ==
  \E r \in Sides :
    /\ ei' = Right(r)
    /\ efrom' = From("Right", Undefined, Undefined, r, r)
    /\ ecall' = NoCall
    /\ UNCHANGED <<mvars, svars>>

\* either(l, r): an Either, or an Error and no Either.
CallEitherOf ==
  \E l \in Sides \cup Nils, r \in Sides \cup Nils :
    LET e == either(l, r)
        threw == e.t = "throw"
    IN /\ ei' = IF threw THEN Undefined ELSE e
       /\ efrom' = From("either", Undefined, l, r,
                        IF threw THEN Undefined ELSE IF exists(l) THEN l ELSE r)
       /\ ecall' = IF threw THEN [op |-> "either", arg |-> Undefined, out |-> e]
                   ELSE NoCall
       /\ UNCHANGED <<mvars, svars>>

CallFromMaybe ==
  \E l \in Sides, m \in Containers :
    /\ ei' = fromMaybe(l, m)
    /\ efrom' = From("fromMaybe", Undefined, l, m,
                     IF toBoolean(m) THEN toNullable(m) ELSE l)
    /\ ecall' = NoCall
    /\ UNCHANGED <<mvars, svars>>

CallEitherMap ==
  /\ ei # Undefined
  /\ \E func \in Funcs :
       /\ ei' = EitherMap(ei, func)
       /\ efrom' = From("map", ei, Undefined, Fn(func),
                        IF isRight(ei) THEN ApplyFn(func, ei.right) ELSE ei.left)
  /\ ecall' = NoCall
  /\ UNCHANGED <<mvars, svars>>

CallEitherFmap ==
  /\ ei # Undefined
  /\ \E func \in EitherKleislis :
       /\ ei' = EitherFmap(ei, func)
       /\ efrom' = From("fmap", ei, Undefined, Fn(func),
                        IF isLeft(ei) THEN ei.left
                        ELSE IF func.k = "Left" THEN func.c ELSE ei.right)
  /\ ecall' = NoCall
  /\ UNCHANGED <<mvars, svars>>

\* this.apply(m): efrom.r is m.
CallEitherApply ==
  /\ ei # Undefined
  /\ \E m \in EitherFuncs :
       /\ ei' = EitherApply(ei, m)
       /\ efrom' = From("apply", ei, Undefined, m,
                        IF isLeft(ei)
                        THEN (IF StrictEq(m.left, m.emptyLeft) THEN ei.left ELSE m.left)
                        ELSE IF isLeft(m) THEN m.left
                        ELSE ApplyFn(m.right.fn, ei.right))
  /\ ecall' = NoCall
  /\ UNCHANGED <<mvars, svars>>

CallEitherGetOr ==
  /\ ei # Undefined
  /\ \E r \in Sides :
       ecall' = [op |-> "getOr", arg |-> r, out |-> EitherGetOr(ei, r)]
  /\ UNCHANGED <<ei, efrom>>
  /\ UNCHANGED <<mvars, svars>>

EitherNext ==
  \/ CallLeft
  \/ CallRight
  \/ CallEitherOf
  \/ CallFromMaybe
  \/ CallEitherMap
  \/ CallEitherFmap
  \/ CallEitherApply
  \/ CallEitherGetOr

SpecEither == EitherInit /\ [][EitherNext]_vars

(***************************************************************************)
(* State: the calls a program makes.                                       *)
(***************************************************************************)
StateInit == NoMaybe /\ NoEither /\ NoState

CallGet ==
  /\ st' = get
  /\ nest' = 0
  /\ srun' = NoRun
  /\ UNCHANGED <<mvars, evars>>

CallPut ==
  \E s \in Nums :
    /\ st' = put(s)
    /\ nest' = 0
    /\ srun' = NoRun
    /\ UNCHANGED <<mvars, evars>>

CallOf ==
  \E a \in Nums \cup {Undefined} :
    /\ st' = of(a)
    /\ nest' = 0
    /\ srun' = NoRun
    /\ UNCHANGED <<mvars, evars>>

CallModify ==
  \E func \in NumFuncs :
    /\ st' = modify(func)
    /\ nest' = 0
    /\ srun' = NoRun
    /\ UNCHANGED <<mvars, evars>>

CallGets ==
  \E func \in NumFuncs :
    /\ st' = gets(func)
    /\ nest' = 0
    /\ srun' = NoRun
    /\ UNCHANGED <<mvars, evars>>

CallStateMap ==
  /\ st # Undefined
  /\ nest < MaxNest
  /\ \E func \in NumFuncs : st' = StateMap(st, func)
  /\ nest' = nest + 1
  /\ srun' = NoRun
  /\ UNCHANGED <<mvars, evars>>

CallThen ==
  /\ st # Undefined
  /\ nest < MaxNest
  /\ \E func \in Conts : st' = StateThen(st, func)
  /\ nest' = nest + 1
  /\ srun' = NoRun
  /\ UNCHANGED <<mvars, evars>>

CallStateApply ==
  /\ st # Undefined
  /\ nest < MaxNest
  /\ \E m \in StateFuncs : st' = StateApply(st, m)
  /\ nest' = nest + 1
  /\ srun' = NoRun
  /\ UNCHANGED <<mvars, evars>>

CallEval ==
  /\ st # Undefined
  /\ \E s \in Nums : srun' = [op |-> "eval", s |-> s, out |-> eval(st, s)]
  /\ UNCHANGED <<st, nest>>
  /\ UNCHANGED <<mvars, evars>>

CallExec ==
  /\ st # Undefined
  /\ \E s \in Nums : srun' = [op |-> "exec", s |-> s, out |-> exec(st, s)]
  /\ UNCHANGED <<st, nest>>
  /\ UNCHANGED <<mvars, evars>>

StateNext ==
  \/ CallGet
  \/ CallPut
  \/ CallOf
  \/ CallModify
  \/ CallGets
  \/ CallStateMap
  \/ CallThen
  \/ CallStateApply
  \/ CallEval
  \/ CallExec

SpecState == StateInit /\ [][StateNext]_vars

(***************************************************************************)
(* Properties.                                                             *)
(***************************************************************************)
\* The containers m.fmap(..) returns are compared by what they report.
SameContainer(x, y) ==
  /\ isNothing(x) = isNothing(y)
  /\ ~isNothing(x) => x.option = y.option

\* C1: for every Maybe m, present with any held value or empty,
\* m.map(identity).equals(m) is true.
C1_MapIdentityEquals ==
  ( /\ chain = <<[op |-> "map", fn |-> [k |-> "identity"]]>>
    /\ mcall.op = "equals"
    /\ mcall.arg = origin )
  => mcall.out = Bool(TRUE)

\* C2: getOr(default) returns default when the Either is Left and the value
\* the Right was built with when it is Right.
C2_GetOrReturnsRight ==
  ecall.op = "getOr"
  => ecall.out = IF isLeft(ei) THEN ecall.arg ELSE efrom.given

\* C3: fromMaybe(leftDefault, m) is Right(value) whenever m holds a value and
\* Left(leftDefault) exactly when m is empty.
C3_FromMaybeRightIffPresent ==
  efrom.op = "fromMaybe"
  => LET m == efrom.r
     IN IF isNothing(m) THEN ei = Left(efrom.l) ELSE ei = Right(m.option)

\* C4: equals(other) is false when exactly one container is empty, true when
\* both are, and otherwise exactly eq of the two held values.
C4_EqualsDelegatesToEq ==
  mcall.op = "equals"
  => LET m == mcall.arg
     IN mcall.out =
          IF isNothing(mb) # isNothing(m) THEN Bool(FALSE)
          ELSE IF isNothing(mb) THEN Bool(TRUE)
          ELSE eq(mb.option, m.option)

\* The constructor call that built origin took the empty path.
EmptyPath ==
  \/ via.ctor = "Nothing"
  \/ via.ctor = "maybe" /\ via.arg \in {Null, Undefined}

\* C5: a Maybe reports isNothing() iff it was built by the empty path:
\* never after Just(v), always after Nothing(), after maybe(v) iff v is null
\* or undefined (else it holds v); and it goes on reporting the same after
\* later calls.
C5_IsNothingIffEmptyPath ==
  origin # Undefined
  => /\ isNothing(origin) <=> EmptyPath
     /\ ~EmptyPath => origin.option = via.arg
     /\ (mcall.op = "isNothing" /\ mcall.arg = origin) => mcall.out = Bool(EmptyPath)

C5_Witness ==
  /\ via = [ctor |-> "maybe", arg |-> Num(0)]
  /\ Len(chain) > 0
  /\ mcall = [op |-> "isNothing", arg |-> origin, out |-> Bool(FALSE)]

\* C6, as claimed: for every Left this and every Either m, this.apply(m) is
\* a Left carrying this's left value.
C6_ApplyKeepsThisLeft ==
  (efrom.op = "apply" /\ isLeft(efrom.this))
  => isLeft(ei) /\ ei.left = efrom.this.left

\* C6, amended: for every Left this and every Either m, this.apply(m) is a
\* Left; it carries m's left field when m has a real Left value set, and
\* this's left field when m has none.
C6_ApplyPrefersArgumentLeft ==
  (efrom.op = "apply" /\ isLeft(efrom.this))
  => /\ isLeft(ei)
     /\ ei.left = IF efrom.r.left # emptySymbol THEN efrom.r.left
                  ELSE efrom.this.left

C6_Witness ==
  /\ efrom.op = "apply"
  /\ efrom.this = Left(Str("a"))
  /\ efrom.r = Left(Num(1))
  /\ ei = Left(Num(1))

\* C7: either(l, r) raises when both l and r are non-null/undefined, raises
\* when both are null/undefined, and otherwise is tagged Left when only l
\* exists and Right when only r exists; then isLeft() # isRight().
C7_EitherExactlyOne ==
  efrom.op = "either"
  => LET hasL == efrom.l \notin Nils
         hasR == efrom.r \notin Nils
     IN /\ (hasL = hasR) => (ei = Undefined /\ ecall.out.t = "throw")
        /\ (hasL # hasR)
             => /\ ei # Undefined
                /\ ecall.out.t # "throw"
                /\ isLeft(ei) = hasL
                /\ isRight(ei) = hasR
                /\ isLeft(ei) # isRight(ei)

C7_Witness ==
  /\ efrom.op = "either"
  /\ efrom.l = Num(0)
  /\ efrom.r = Null
  /\ ei # Undefined
  /\ isLeft(ei)

\* C8: m.prop(key) never raises: it is Just(value[key]) when m is present,
\* the held value has the key and value[key] is not null/undefined, and
\* empty in every other case, a held primitive included.
C8_PropNeverRaises ==
  /\ ~(mcall.op = "prop" /\ mcall.out.t = "throw")
  /\ (Len(chain) = 1 /\ chain[1].op = "prop")
       => LET key == chain[1].fn.key
              val == origin.option
              has == /\ ~isNothing(origin)
                     /\ In(key, val)
                     /\ Get(val, key) \notin {Null, Undefined}
          IN mb = IF has THEN Just(Get(val, key)) ELSE Nothing

\* C9: m.fmap(f).fmap(g) and m.fmap(x => f(x).fmap(g)) are the same
\* container: both empty, or both present holding the same value.
C9_FmapAssociative ==
  (Len(chain) = 2 /\ chain[1].op = "fmap" /\ chain[2].op = "fmap")
  => SameContainer(mb, MaybeFmap(origin, [k |-> "bind", f |-> chain[1].fn,
                                                      g |-> chain[2].fn]))

C9_Witness ==
  /\ origin = Just(Num(1))
  /\ chain = << [op |-> "fmap", fn |-> [k |-> "ifTruthy"]],
                [op |-> "fmap", fn |-> [k |-> "always", c |-> Num(0)]] >>
  /\ mb = Just(Num(0))

\* C10: this.then(f) run on s0 runs this on s0 to get (a, s1), then f(a) on
\* s1, and yields its (b, s2); get().then(s => put(g(s))).exec(s0) is g(s0),
\* the final state of modify(g).exec(s0).
C10_ThenThreadsState ==
  (st # Undefined /\ st.run.k = "then" /\ srun.op # "none")
  => LET this == st.run.this
         func == st.run.func
         first == run(this, srun.s)
         second == run(ApplyS(func, first[1]), first[2])
     IN /\ srun.out = IF srun.op = "eval" THEN second[1] ELSE second[2]
        /\ (this = get /\ func.k = "put" /\ srun.op = "exec")
             => /\ srun.out = ApplyFn(func.g, srun.s)
                /\ srun.out = exec(modify(func.g), srun.s)

C10_Witness ==
  /\ st = StateThen(get, [k |-> "put", g |-> [k |-> "double"]])
  /\ srun = [op |-> "exec", s |-> Num(1), out |-> Num(2)]

\* C11: this.apply(m) run on s0 runs m on s0 to get (f, s1), then this on s1
\* to get (a, s2), and yields (f(a), s2): the result and the final state of
\* m.then(f => this.map(f)) on s0.
C11_ApplyRunsArgumentFirst ==
  (st # Undefined /\ st.run.k = "then" /\ st.run.func.k = "mapOver"
     /\ srun.op # "none")
  => LET m == st.run.this
         this == st.run.func.this
         first == run(m, srun.s)
         second == run(this, first[2])
         outcome == <<ApplyFn(first[1].fn, second[1]), second[2]>>
         composed == StateThen(m, [k |-> "mapOver", this |-> this])
     IN /\ srun.out = IF srun.op = "eval" THEN outcome[1] ELSE outcome[2]
        /\ outcome = <<eval(composed, srun.s), exec(composed, srun.s)>>

C11_Witness ==
  /\ st = StateApply(get, StateMap(modify([k |-> "double"]),
                                   [k |-> "const", c |-> Fn([k |-> "double"])]))
  /\ srun = [op |-> "eval", s |-> Num(1), out |-> Num(4)]

\* C12: m.on(callback) invokes callback exactly once with the held value when
\* m is present and never when m is empty, and returns the container
\* unchanged: empty iff m is empty and, when present, holding m's value, a
\* held 0, "" or false included.
C12_OnReturnsUnchanged ==
  (Len(chain) = 1 /\ chain[1].op = "on")
  => /\ called = IF isNothing(origin) THEN <<>>
                 ELSE <<[callback |-> chain[1].fn.callback, value |-> origin.option]>>
     /\ SameContainer(mb, origin)

====
